---- MODULE Spec2Model ----
(***************************************************************************)
(* Reaction coupling of Castro (Source/reactions/Castro_react.cpp):         *)
(*   - Castro::react_state(s, r, time, dt)   the Strang coupler            *)
(*   - Castro::react_state(time, dt)         the simplified-SDC coupler    *)
(*   - Castro::valid_zones_to_burn(State)    the zone gate                 *)
(*                                                                         *)
(* The grid is one-dimensional: two boxes (fabs), three tiles, distributed *)
(* over two MPI ranks (workers).  Reals are modelled by integers; the      *)
(* burner is an external function of the cell, fixed per behaviour by the  *)
(* table cfg.integ.  A read past the end of an amrex::Vector is undefined  *)
(* behaviour and is modelled as a free choice among Garbage.               *)
(***************************************************************************)
EXTENDS Integers, Sequences, FiniteSets, TLC

\* ------------------------------------------------------------------ bounds
\* Largest halo (ghost-cell) width of the state and of the rate array.
MaxGrow == 1

\* Largest number of auxiliary components (NumAux ranges over 0..MaxAux).
MaxAux == 1

\* Largest number of species (NumSpec ranges over 1..MaxSpec).
MaxSpec == 2

\* ------------------------------------------------------- program constants
\* Real small = 1.e-10 and Real large = 1.e199, on the model's integer scale.
small == 1
large == 9

\* "The default values of the limiters are 0 and 1.e200, respectively."
DefaultMin == 0
DefaultMax == 10

\* std::numeric_limits<Real>::max(): the local extreme of a rank without boxes.
RealMax == 99

\* The time step dt handed to the coupler.
dt == 2

\* Content of the rate array before the call (left by construction or by an
\* earlier step): any value; the model uses one that no rate of the call takes.
Stale == 7

\* What FillCoarsePatch interpolates from the coarser level.
Interp == 5

\* ---------------------------------------------------------------- geometry
Workers == {1, 2}
Fabs == {1, 2}
Tiles == {1, 2, 3}

ValidLo(f) == IF f = 1 THEN 0 ELSE 2
ValidHi(f) == IF f = 1 THEN 1 ELSE 2
ValidBox(f) == ValidLo(f)..ValidHi(f)

Grow(f, ng) == (ValidLo(f) - ng)..(ValidHi(f) + ng)

TileFab(t) == IF t = 3 THEN 2 ELSE 1
TileLo(t) == t - 1
TileHi(t) == t - 1

\* mfi.growntilebox(ng): the tile, grown where it touches the box's boundary.
growntilebox(t, ng) ==
    LET f == TileFab(t)
        lo == IF TileLo(t) = ValidLo(f) THEN TileLo(t) - ng ELSE TileLo(t)
        hi == IF TileHi(t) = ValidHi(f) THEN TileHi(t) + ng ELSE TileHi(t)
    IN  lo..hi

\* The cell of the domain whose data a ghost cell holds (outflow boundary).
Clamp(i) == IF i < 0 THEN 0 ELSE IF i > 2 THEN 2 ELSE i

Max2(a, b) == IF a >= b THEN a ELSE b
SetMin(S) == CHOOSE x \in S : \A y \in S : x <= y
SetMax(S) == CHOOSE x \in S : \A y \in S : x >= y

\* ------------------------------------------------------------------- state
VARIABLES
    cfg,            \* run-time and build parameters, the same on every rank
    U,              \* s (Strang) or S_new (SDC): fab -> cell -> components
    U_old,          \* S_old (SDC)
    reactions,      \* r: fab -> cell -> component 0..NumSpec+NumAux+1
    pc,             \* each rank's position in the coupler
    tpc,            \* each tile's position in the MFIter loop body
    lim,            \* each rank's locals of valid_zones_to_burn
    burn_failed,    \* each rank's reduce_data
    burn_success,   \* each rank's burn_success
    ret,            \* each rank's return value: << >> until it returns
    e_added,        \* each rank's e_added: << >> until it is computed
    gate,           \* history: what valid_zones_to_burn returned: << >> or <<b>>
    prov,           \* history: who wrote each rate cell last
    acc             \* history: accesses made by the call

vars == <<cfg, U, U_old, reactions, pc, tpc, lim, burn_failed, burn_success,
          ret, e_added, gate, prov, acc>>

\* Component indices of the rate array.
NComp == cfg.NumSpec + cfg.NumAux + 2
EnergyComp == cfg.NumSpec + cfg.NumAux
WeightComp == cfg.NumSpec + cfg.NumAux + 1

OwnedFabs(w) == {f \in Fabs : cfg.owner[f] = w}
OwnedTiles(w) == {t \in Tiles : cfg.owner[TileFab(t)] = w}

\* Array4::contains for the state array and for the rate array of box f.
UContains(f, i) == i \in Grow(f, cfg.ngS)

\* A port that trusts the two arrays to be congruent.
RContainsUnchecked(f, i) == TRUE

RContains(f, i) == i \in Grow(f, cfg.ngR)

\* ----------------------------------------------------------------- burner
\* What the external integrator does on a cell: whether it converges, how far
\* it moves composition and energy, and its right-hand-side and Jacobian counts.
Outcomes ==
    [ ok    |-> [success |-> TRUE,  d |-> 1, n_rhs |-> 2, n_jac |-> 1],
      quiet |-> [success |-> TRUE,  d |-> 0, n_rhs |-> 0, n_jac |-> 0],
      fail  |-> [success |-> FALSE, d |-> 1, n_rhs |-> 3, n_jac |-> 1] ]

OutcomeNames == {"ok", "quiet", "fail"}

\* The integrator's answer on cell i of any box: ghost cells hold the data of
\* the cell they copy, and the integrator is a function of that data.
Integ(i) == Outcomes[cfg.integ[Clamp(i)]]

\* ---------------------------------------------------------- initial state
\* The state of domain cell g before the call: density, three momenta, total
\* and internal energy, temperature, species, auxiliaries, shock flag.
NewCell(c, g, rho, T, shk) ==
    [rho |-> rho, mx |-> 11, my |-> 12, mz |-> 13,
     eden |-> 40 + g + dt, eint |-> 20 + g + dt, temp |-> T,
     fs |-> [n \in 1..c.NumSpec |-> rho + n],
     fx |-> [n \in 1..c.NumAux |-> rho + 10 + n],
     shk |-> shk]

OldCell(c, g, rho, T, shk) ==
    [rho |-> rho, mx |-> 1, my |-> 2, mz |-> 3,
     eden |-> 40 + g, eint |-> 20 + g, temp |-> T,
     fs |-> [n \in 1..c.NumSpec |-> rho + n - dt],
     fx |-> [n \in 1..c.NumAux |-> rho + 10 + n + dt],
     shk |-> shk]

InitU(c) ==
    [f \in Fabs |-> [i \in Grow(f, c.ngS) |->
        NewCell(c, Clamp(i), c.rho0[Clamp(i)], c.T0[Clamp(i)], c.shk0[Clamp(i)])]]

InitUold(c) ==
    [f \in Fabs |-> [i \in Grow(f, c.ngS) |->
        OldCell(c, Clamp(i), c.rho0[Clamp(i)], c.T0[Clamp(i)], c.shk0[Clamp(i)])]]

InitReactions(c) ==
    [f \in Fabs |-> [i \in Grow(f, c.ngR) |->
        [n \in 0..(c.NumSpec + c.NumAux + 1) |-> Stale]]]

NoLim ==
    [small_limiters |-> << >>, large_limiters |-> << >>,
     smalldens |-> small, largedens |-> large,
     small_T |-> small, large_T |-> large]

NoAcc ==
    [burned |-> {}, failed |-> {}, noburn |-> {}, visited |-> {},
     applied |-> {}, applyRead |-> {}, ctxAfterApply |-> FALSE,
     rateOOB |-> FALSE, vecOOB |-> FALSE]

Domain == 0..2

BaseCfg ==
    [time_integration_method |-> "CTU", do_react |-> 1,
     level |-> 0, reactions_max_solve_level |-> 0,
     react_rho_min |-> DefaultMin, react_rho_max |-> DefaultMax,
     react_T_min |-> DefaultMin, react_T_max |-> DefaultMax,
     disable_shock_burning |-> 1, print_update_diagnostics |-> 1,
     NumSpec |-> 1, NumAux |-> 0, ngS |-> 0, ngR |-> 0,
     owner |-> [f \in Fabs |-> f],
     integ |-> [g \in Domain |-> "ok"],
     rho0 |-> [g \in Domain |-> 6], T0 |-> [g \in Domain |-> 6],
     shk0 |-> [g \in Domain |-> 0]]

Methods == {"CTU", "SDC"}

\* Box distributions: one box per rank, or every box on rank 1 (rank 2 idle).
Owners == {[f \in Fabs |-> f], [f \in Fabs |-> 1], [f \in Fabs |-> 3 - f]}

\* ------------------------------------------------- valid_zones_to_burn
limit_small_rho == cfg.react_rho_min >= small
limit_large_rho == cfg.react_rho_max <= large
limit_rho == limit_small_rho \/ limit_large_rho
limit_small_T == cfg.react_T_min >= small
limit_large_T == cfg.react_T_max <= large
limit_T == limit_small_T \/ limit_large_T
limit == limit_rho \/ limit_T

\* State.min(comp, 0, local) and State.max(comp, 0, local): over the valid
\* (non-ghost) cells of the boxes this rank owns.
LocalVals(w, comp) ==
    UNION {{U[f][i][comp] : i \in ValidBox(f)} : f \in OwnedFabs(w)}

LocalMin(w, comp) ==
    IF OwnedFabs(w) = {} THEN RealMax ELSE SetMin(LocalVals(w, comp))

LocalMax(w, comp) ==
    IF OwnedFabs(w) = {} THEN 0 - RealMax ELSE SetMax(LocalVals(w, comp))

\* What an out-of-range read of a vector's storage can return.
Garbage == {0 - 1, 11}

\* Lines 543-567: the local extremes, pushed for the active bounds only.
PushLimiters(w) ==
    LET sd == IF limit_small_rho THEN LocalMin(w, "rho") ELSE small
        ld == IF limit_large_rho THEN LocalMax(w, "rho") ELSE large
        sT == IF limit_small_T THEN LocalMin(w, "temp") ELSE small
        lT == IF limit_large_T THEN LocalMax(w, "temp") ELSE large
    IN  [small_limiters |->
             (IF limit_small_rho THEN <<sd>> ELSE << >>) \o
             (IF limit_small_T THEN <<sT>> ELSE << >>),
         large_limiters |->
             (IF limit_large_rho THEN <<ld>> ELSE << >>) \o
             (IF limit_large_T THEN <<lT>> ELSE << >>),
         smalldens |-> sd, largedens |-> ld, small_T |-> sT, large_T |-> lT]

\* ParallelDescriptor::ReduceRealMin / ReduceRealMax on a vector.
ReducedMin(k) == SetMin({lim[w].small_limiters[k] : w \in Workers})
ReducedMax(k) == SetMax({lim[w].large_limiters[k] : w \in Workers})

\* v[idx] of an amrex::Vector (0-based): the element, or garbage past the end.
VecRead(v, idx, g) == IF idx + 1 \in DOMAIN v THEN v[idx + 1] ELSE g

\* Lines 580-587: the indices read back from small_limiters.
SmallTIndex == IF limit_small_rho THEN 1 ELSE 0

\* Lines 595-602: the indices read back from large_limiters.
LargeTIndex == 1

\* Lines 610-613: the final comparison.
SurvivesLimiters(l) ==
    /\ l.largedens >= cfg.react_rho_min
    /\ l.smalldens <= cfg.react_rho_max
    /\ l.large_T >= cfg.react_T_min
    /\ l.small_T <= cfg.react_T_max

\* ------------------------------------------------------------ cell kernels
\* setVal(0.0) without the ghost cells: the halo keeps what it held.
SetValValidOnly(w) ==
    [f \in Fabs |->
        IF cfg.owner[f] = w
        THEN [i \in DOMAIN reactions[f] |->
                 IF i \in ValidBox(f) THEN [n \in 0..(NComp - 1) |-> 0]
                 ELSE reactions[f][i]]
        ELSE reactions[f]]

\* MultiFab::setVal(0.0, nGrow) on the boxes of one rank.
SetValZero(w) ==
    [f \in Fabs |->
        IF cfg.owner[f] = w
        THEN [i \in DOMAIN reactions[f] |-> [n \in 0..(NComp - 1) |-> 0]]
        ELSE reactions[f]]

MarkAll(w, who) ==
    [f \in Fabs |->
        IF cfg.owner[f] = w
        THEN [i \in DOMAIN prov[f] |-> who]
        ELSE prov[f]]

\* FillCoarsePatch(r, 0, time, Reactions_Type, 0, r.nComp(), r.nGrow()).
FillCoarse(w) ==
    [f \in Fabs |->
        IF cfg.owner[f] = w
        THEN [i \in DOMAIN reactions[f] |-> [n \in 0..(NComp - 1) |-> Interp]]
        ELSE reactions[f]]

LevelSolves == cfg.level <= cfg.reactions_max_solve_level

\* Lines 94-100 and 125-128: whether the cell is handed to the integrator.
\* c carries the shock flag, b the density and temperature tested.
DoBurn(c, b) ==
    /\ ~(c.shk > 0 /\ cfg.disable_shock_burning = 1)
    /\ ~(\/ b.temp < cfg.react_T_min \/ b.temp > cfg.react_T_max
          \/ b.rho < cfg.react_rho_min \/ b.rho > cfg.react_rho_max)

\* Strang: burn_state after burner(burn_state, dt).  rx and raux hold
\* rho * xn and rho * aux, so that rho * (xn - U * rhoInv) is rx - U exactly.
StrangBurner(c, o) ==
    [success |-> o.success,
     rx |-> [n \in 1..cfg.NumSpec |-> c.fs[n] + o.d * dt * n],
     raux |-> [n \in 1..cfg.NumAux |-> c.fx[n] - o.d * dt],
     e |-> o.d * dt,
     n_rhs |-> o.n_rhs, n_jac |-> o.n_jac]

\* Lines 147-156: the rates of a burned cell.
StrangRates(c, b) ==
    [n \in 0..(NComp - 1) |->
        IF n < cfg.NumSpec THEN (b.rx[n + 1] - c.fs[n + 1]) \div dt
        ELSE IF n < cfg.NumSpec + cfg.NumAux
             THEN (b.raux[n - cfg.NumSpec + 1] - c.fx[n - cfg.NumSpec + 1]) \div dt
        ELSE IF n = cfg.NumSpec + cfg.NumAux THEN (c.rho * b.e) \div dt
        ELSE Max2(1, b.n_rhs + 2 * b.n_jac)]

\* Lines 163-167: the rates of a cell that was not burned.
NoBurnRates ==
    [n \in 0..(NComp - 1) |-> IF n < cfg.NumSpec + cfg.NumAux + 1 THEN 0 ELSE 1]

\* Lines 184-193: the state of a cell after the rates are applied.
ApplyRates(c, r) ==
    [c EXCEPT
        !.fs = [n \in 1..cfg.NumSpec |-> c.fs[n] + r[n - 1] * dt],
        !.fx = [n \in 1..cfg.NumAux |-> c.fx[n] + r[n - 1 + cfg.NumSpec] * dt],
        !.eint = c.eint + r[cfg.NumSpec + cfg.NumAux] * dt,
        !.eden = c.eden + r[cfg.NumSpec + cfg.NumAux] * dt]

\* SDC: burn_state.y after burner(burn_state, dt), seeded from the old state
\* and advanced by the advective source (1 per unit time) and the reactions.
SDCBurner(co, o) ==
    [success |-> o.success,
     eden |-> co.eden + dt * (1 + o.d),
     eint |-> co.eint + dt * (1 + o.d),
     fs |-> [n \in 1..cfg.NumSpec |-> co.fs[n] + dt * (1 + o.d * n)],
     fx |-> [n \in 1..cfg.NumAux |-> co.fx[n] - dt * (1 + o.d)],
     n_rhs |-> o.n_rhs, n_jac |-> o.n_jac]

\* An update that copies the integrator's whole vector back, momenta included.
SDCUpdateWithMomenta(cn, b) ==
    [cn EXCEPT !.eden = b.eden, !.eint = b.eint, !.fs = b.fs, !.fx = b.fx,
               !.mx = 0, !.my = 0, !.mz = 0]

\* Lines 426-435: the new state of a burned cell.
SDCUpdate(cn, b) ==
    [cn EXCEPT !.eden = b.eden, !.eint = b.eint, !.fs = b.fs, !.fx = b.fx]

\* Lines 438-448: the rates of a burned cell, from the updated new state.
SDCRates(cn, co, b) ==
    [n \in 0..(NComp - 1) |->
        IF n < cfg.NumSpec THEN (cn.fs[n + 1] - co.fs[n + 1]) \div dt
        ELSE IF n < cfg.NumSpec + cfg.NumAux
             THEN (cn.fx[n - cfg.NumSpec + 1] - co.fx[n - cfg.NumSpec + 1]) \div dt
        ELSE IF n = cfg.NumSpec + cfg.NumAux THEN (cn.eint - co.eint) \div dt
        ELSE Max2(1, b.n_rhs + 2 * b.n_jac)]

\* The box both sub-passes of a tile run over: const Box& bx.
RateBox(t) == growntilebox(t, cfg.ngS)

\* An apply sub-pass that runs over the whole box instead of the tile.
ApplyWholeFab(t) == Grow(TileFab(t), cfg.ngS)

ApplyBox(t) == growntilebox(t, cfg.ngS)

\* The component r.sum(NumSpec + 1) adds up (lines 210 and 472).
DiagComp == cfg.NumSpec + 1

\* ------------------------------------------------------------------ inputs
Halos == 0..MaxGrow
AuxCounts == 0..MaxAux
SpecCounts == 1..MaxSpec

\* Cell data and react window together: everything inside an open window;
\* cell 0 too thin for react_rho_min; cell 1 shocked; a ceiling on the
\* temperature that every cell is under.
Scenarios ==
    { [rho0 |-> [g \in Domain |-> 6], T0 |-> [g \in Domain |-> 6],
       shk0 |-> [g \in Domain |-> 0],
       rho_min |-> DefaultMin, T_max |-> DefaultMax],
      [rho0 |-> [g \in Domain |-> IF g = 0 THEN 3 ELSE 6],
       T0 |-> [g \in Domain |-> 6], shk0 |-> [g \in Domain |-> 0],
       rho_min |-> 5, T_max |-> DefaultMax],
      [rho0 |-> [g \in Domain |-> 6], T0 |-> [g \in Domain |-> 6],
       shk0 |-> [g \in Domain |-> IF g = 1 THEN 1 ELSE 0],
       rho_min |-> DefaultMin, T_max |-> DefaultMax],
      [rho0 |-> [g \in Domain |-> 6], T0 |-> [g \in Domain |-> 6],
       shk0 |-> [g \in Domain |-> 0],
       rho_min |-> DefaultMin, T_max |-> 7] }

WithScenario(c, sc) ==
    [c EXCEPT !.rho0 = sc.rho0, !.T0 = sc.T0, !.shk0 = sc.shk0,
              !.react_rho_min = sc.rho_min, !.react_T_max = sc.T_max]

\* Any set of failing cells, over every distribution of the boxes.
FailureCfgs ==
    {[WithScenario(BaseCfg, sc) EXCEPT
        !.time_integration_method = m, !.owner = o, !.integ = ig] :
     m \in Methods, o \in Owners, ig \in [Domain -> OutcomeNames],
     sc \in Scenarios}

\* Every pair of halo widths, with and without auxiliaries, on a level that
\* solves the network and on one that interpolates.
HaloCfgs ==
    {[WithScenario(BaseCfg, sc) EXCEPT
        !.time_integration_method = m, !.level = lv, !.do_react = dr,
        !.ngS = gs, !.ngR = gr, !.NumAux = na,
        !.owner = [f \in Fabs |-> IF ow = 1 THEN 1 ELSE f],
        !.integ = [g \in Domain |-> IF g = 0 THEN fz ELSE "ok"]] :
     m \in Methods, lv \in {0, 1}, dr \in {0, 1}, gs \in Halos, gr \in Halos,
     na \in AuxCounts, ow \in {1, 2}, fz \in {"fail", "quiet"},
     sc \in Scenarios}

\* Every combination of active bounds, over densities and temperatures below,
\* inside and above the window [5, 7].
TProfiles ==
    {[g \in Domain |-> 3], [g \in Domain |-> 6], [g \in Domain |-> 8],
     [g \in Domain |-> IF g = 0 THEN 3 ELSE 8],
     [g \in Domain |-> IF g = 2 THEN 3 ELSE 6]}

GateCfgs ==
    {[BaseCfg EXCEPT
        !.react_rho_min = rmin, !.react_rho_max = rmax,
        !.react_T_min = tmin, !.react_T_max = tmax,
        !.rho0 = r0, !.T0 = t0,
        !.owner = [f \in Fabs |-> IF ow = 1 THEN 1 ELSE f]] :
     rmin \in {DefaultMin, 5}, rmax \in {DefaultMax, 7},
     tmin \in {DefaultMin, 5}, tmax \in {DefaultMax, 7},
     r0 \in [Domain -> {3, 6, 8}], t0 \in TProfiles, ow \in {1, 2}}

\* Every component layout, with the diagnostic on and off.
DiagCfgs ==
    {[BaseCfg EXCEPT
        !.time_integration_method = m, !.NumSpec = ns, !.NumAux = na,
        !.print_update_diagnostics = pr,
        !.integ = [g \in Domain |-> IF g = 0 THEN "ok" ELSE q]] :
     m \in Methods, ns \in SpecCounts, na \in AuxCounts, pr \in {0, 1},
     q \in {"ok", "quiet"}}

Cfgs == FailureCfgs \cup HaloCfgs \cup GateCfgs \cup DiagCfgs

Init ==
    /\ cfg \in Cfgs
    /\ U = InitU(cfg)
    /\ U_old = InitUold(cfg)
    /\ reactions = InitReactions(cfg)
    /\ pc = [w \in Workers |-> "idle"]
    /\ tpc = [t \in Tiles |-> "todo"]
    /\ lim = [w \in Workers |-> NoLim]
    /\ burn_failed = [w \in Workers |-> 0]
    /\ burn_success = [w \in Workers |-> 1]
    /\ ret = [w \in Workers |-> << >>]
    /\ e_added = [w \in Workers |-> << >>]
    /\ gate = [w \in Workers |-> << >>]
    /\ prov = [f \in Fabs |-> [i \in Grow(f, cfg.ngR) |-> "stale"]]
    /\ acc = NoAcc

\* ------------------------------------------------- Strang: lines 10-57
\* Lines 17-51 up to the call of valid_zones_to_burn.  The coupler is only
\* entered under the CTU advance (amrex::Error otherwise).
StrangEnter(w) ==
    /\ pc[w] = "idle"
    /\ cfg.time_integration_method = "CTU"
    /\ burn_success' = [burn_success EXCEPT ![w] = 1]
    /\ IF cfg.do_react # 1
       THEN /\ reactions' = SetValZero(w)
            /\ prov' = MarkAll(w, "reset")
            /\ ret' = [ret EXCEPT ![w] = <<TRUE>>]
            /\ pc' = [pc EXCEPT ![w] = "done"]
       ELSE /\ pc' = [pc EXCEPT ![w] = "gate"]
            /\ UNCHANGED <<reactions, prov, ret>>
    /\ UNCHANGED <<cfg, U, U_old, tpc, lim, burn_failed, e_added, gate, acc>>

\* valid_zones_to_burn, lines 514-577 and 590-592: up to the first reduction.
GateLocal(w) ==
    /\ pc[w] = "gate"
    /\ IF ~limit
       THEN /\ gate' = [gate EXCEPT ![w] = <<TRUE>>]
            /\ pc' = [pc EXCEPT ![w] = "gated"]
            /\ UNCHANGED lim
       ELSE LET l == PushLimiters(w)
            IN  /\ lim' = [lim EXCEPT ![w] = l]
                /\ pc' = [pc EXCEPT ![w] =
                       IF Len(l.small_limiters) > 0 THEN "reduce_min"
                       ELSE IF Len(l.large_limiters) > 0 THEN "reduce_max"
                       ELSE "gate_test"]
                /\ UNCHANGED gate
    /\ UNCHANGED <<cfg, U, U_old, reactions, tpc, burn_failed, burn_success,
                   ret, e_added, prov, acc>>

\* Lines 578-587: the collective minimum, and the values read back from it.
ReduceRealMin ==
    /\ \A w \in Workers : pc[w] = "reduce_min"
    /\ lim' = [w \in Workers |->
           LET red == [k \in DOMAIN lim[w].small_limiters |-> ReducedMin(k)]
           IN  [lim[w] EXCEPT
                   !.small_limiters = red,
                   !.smalldens = IF limit_small_rho THEN red[1] ELSE @,
                   !.small_T = IF limit_small_T
                               THEN red[SmallTIndex + 1] ELSE @]]
    /\ pc' = [w \in Workers |->
           IF Len(lim[w].large_limiters) > 0 THEN "reduce_max" ELSE "gate_test"]
    /\ UNCHANGED <<cfg, U, U_old, reactions, tpc, burn_failed, burn_success,
                   ret, e_added, gate, prov, acc>>

\* Line 593: the collective maximum.
ReduceRealMax ==
    /\ \A w \in Workers : pc[w] = "reduce_max"
    /\ lim' = [w \in Workers |->
           [lim[w] EXCEPT !.large_limiters =
               [k \in DOMAIN lim[w].large_limiters |-> ReducedMax(k)]]]
    /\ pc' = [w \in Workers |-> "gate_test"]
    /\ UNCHANGED <<cfg, U, U_old, reactions, tpc, burn_failed, burn_success,
                   ret, e_added, gate, prov, acc>>

\* Lines 595-622: the values read back from large_limiters, and the verdict.
GateTest(w) ==
    /\ pc[w] = "gate_test"
    /\ \E g \in Garbage :
        LET v == lim[w].large_limiters
            l == IF Len(v) = 0 THEN lim[w]
                 ELSE [lim[w] EXCEPT
                         !.largedens = IF limit_large_rho
                                       THEN VecRead(v, 0, g) ELSE @,
                         !.large_T = IF limit_large_T \/ ~limit_large_rho
                                     THEN VecRead(v, LargeTIndex, g) ELSE @]
            past == /\ Len(v) > 0
                    /\ (limit_large_T \/ ~limit_large_rho)
                    /\ LargeTIndex + 1 \notin DOMAIN v
        IN  /\ lim' = [lim EXCEPT ![w] = l]
            /\ gate' = [gate EXCEPT ![w] = <<SurvivesLimiters(l)>>]
            /\ acc' = [acc EXCEPT !.vecOOB = @ \/ past]
    /\ pc' = [pc EXCEPT ![w] = "gated"]
    /\ UNCHANGED <<cfg, U, U_old, reactions, tpc, burn_failed, burn_success,
                   ret, e_added, prov>>

\* Lines 44-63: skip the pass, or interpolate and enter it.
StrangGated(w) ==
    /\ pc[w] = "gated"
    /\ IF gate[w] = <<FALSE>>
       THEN /\ reactions' = SetValZero(w)
            /\ prov' = MarkAll(w, "reset")
            /\ ret' = [ret EXCEPT ![w] = <<TRUE>>]
            /\ pc' = [pc EXCEPT ![w] = "done"]
       ELSE /\ IF cfg.level > cfg.reactions_max_solve_level /\ cfg.level > 0
               THEN /\ reactions' = FillCoarse(w)
                    /\ prov' = MarkAll(w, "interp")
               ELSE UNCHANGED <<reactions, prov>>
            /\ pc' = [pc EXCEPT ![w] = "pass"]
            /\ UNCHANGED ret
    /\ UNCHANGED <<cfg, U, U_old, tpc, lim, burn_failed, burn_success,
                   e_added, gate, acc>>

\* ------------------------------------------- Strang: the MFIter loop body
Cells(f, box) == {<<f, i>> : i \in box}

\* Lines 80-176: reduce_op.eval over bx, the rate sub-pass of one tile.
StrangRate(t) ==
    LET f == TileFab(t)
        w == cfg.owner[f]
        bx == RateBox(t)
        burns == {i \in bx : DoBurn(U[f][i], U[f][i])}
        fails == {i \in burns : ~StrangBurner(U[f][i], Integ(i)).success}
        writes == {i \in bx : RContains(f, i)}
    IN  /\ pc[w] = "pass"
        /\ cfg.time_integration_method = "CTU"
        /\ tpc[t] = "todo"
        /\ tpc' = [tpc EXCEPT ![t] = "rated"]
        /\ IF LevelSolves
           THEN /\ reactions' = [reactions EXCEPT ![f] =
                       [i \in DOMAIN @ |->
                           IF i \notin writes THEN @[i]
                           ELSE IF i \in burns
                           THEN StrangRates(U[f][i],
                                            StrangBurner(U[f][i], Integ(i)))
                           ELSE NoBurnRates]]
                /\ prov' = [prov EXCEPT ![f] =
                       [i \in DOMAIN @ |->
                           IF i \notin writes THEN @[i]
                           ELSE IF i \in burns THEN "burn" ELSE "noburn"]]
                /\ burn_failed' = [burn_failed EXCEPT
                                      ![w] = @ + Cardinality(fails)]
                /\ acc' = [acc EXCEPT
                       !.burned = @ \cup Cells(f, burns),
                       !.failed = @ \cup Cells(f, fails),
                       !.noburn = @ \cup Cells(f, bx \ burns),
                       !.visited = @ \cup Cells(f, bx),
                       !.ctxAfterApply =
                           @ \/ (Cells(f, bx) \cap acc.applied # {}),
                       !.rateOOB = @ \/ (writes \ DOMAIN reactions[f] # {})]
           ELSE UNCHANGED <<reactions, prov, burn_failed, acc>>
        /\ UNCHANGED <<cfg, U, U_old, pc, lim, burn_success, ret, e_added,
                       gate>>

\* Lines 180-195: amrex::ParallelFor over bx, the apply sub-pass of one tile.
StrangApply(t) ==
    LET f == TileFab(t)
        w == cfg.owner[f]
        bx == ApplyBox(t)
        both == {i \in bx : UContains(f, i) /\ RContains(f, i)}
        inside == both \cap DOMAIN U[f] \cap DOMAIN reactions[f]
    IN  /\ pc[w] = "pass"
        /\ tpc[t] = "rated"
        /\ tpc' = [tpc EXCEPT ![t] = "done"]
        /\ U' = [U EXCEPT ![f] =
               [i \in DOMAIN @ |->
                   IF i \in inside THEN ApplyRates(@[i], reactions[f][i])
                   ELSE @[i]]]
        /\ acc' = [acc EXCEPT
               !.applied = @ \cup Cells(f, inside),
               !.applyRead = @ \cup {<<f, i, prov[f][i]>> : i \in inside},
               !.rateOOB = @ \/ (both \ DOMAIN reactions[f] # {})]
        /\ UNCHANGED <<cfg, U_old, reactions, pc, lim, burn_failed,
                       burn_success, ret, e_added, gate, prov>>

\* ---------------------------------------------------- SDC: lines 245-457
\* Lines 267-311: the rate array is reset, then the pass is entered.  The
\* coupler is only entered under simplified SDC (amrex::Error otherwise).
SDCEnter(w) ==
    /\ pc[w] = "idle"
    /\ cfg.time_integration_method = "SDC"
    /\ reactions' = SetValZero(w)
    /\ prov' = MarkAll(w, "reset")
    /\ burn_success' = [burn_success EXCEPT ![w] = 1]
    /\ pc' = [pc EXCEPT ![w] = "pass"]
    /\ UNCHANGED <<cfg, U, U_old, tpc, lim, burn_failed, ret, e_added, gate,
                   acc>>

\* Lines 313-457: reduce_op.eval over bx, the pass of one tile.
SDCBurn(t) ==
    LET f == TileFab(t)
        w == cfg.owner[f]
        bx == RateBox(t)
        burns == {i \in bx : DoBurn(U[f][i], U_old[f][i])}
        out(i) == SDCBurner(U_old[f][i], Integ(i))
        fails == {i \in burns : ~out(i).success}
        writes == {i \in burns : RContains(f, i)}
        Unew == [U EXCEPT ![f] =
                    [i \in DOMAIN @ |->
                        IF i \in burns THEN SDCUpdate(@[i], out(i)) ELSE @[i]]]
    IN  /\ pc[w] = "pass"
        /\ cfg.time_integration_method = "SDC"
        /\ tpc[t] = "todo"
        /\ tpc' = [tpc EXCEPT ![t] = "done"]
        /\ U' = Unew
        /\ reactions' = [reactions EXCEPT ![f] =
               [i \in DOMAIN @ |->
                   IF i \in writes
                   THEN SDCRates(Unew[f][i], U_old[f][i], out(i))
                   ELSE @[i]]]
        /\ prov' = [prov EXCEPT ![f] =
               [i \in DOMAIN @ |-> IF i \in writes THEN "burn" ELSE @[i]]]
        /\ burn_failed' = [burn_failed EXCEPT ![w] = @ + Cardinality(fails)]
        /\ acc' = [acc EXCEPT
               !.burned = @ \cup Cells(f, burns),
               !.failed = @ \cup Cells(f, fails),
               !.noburn = @ \cup Cells(f, bx \ burns),
               !.visited = @ \cup Cells(f, bx),
               !.rateOOB = @ \/ (writes \ DOMAIN reactions[f] # {})]
        /\ UNCHANGED <<cfg, U_old, pc, lim, burn_success, ret, e_added, gate>>

\* ------------------------------------------------ after the loop, both
\* Where a rank goes after the success reduction, the halo exchange and the
\* diagnostic: the steps that remain, in the order of lines 464-477.
AfterReduce ==
    IF cfg.time_integration_method = "SDC" /\ cfg.ngS > 0 THEN "fill"
    ELSE IF cfg.print_update_diagnostics = 1 THEN "diag" ELSE "done"

AfterFill == IF cfg.print_update_diagnostics = 1 THEN "diag" ELSE "done"

\* return burn_success, as a bool.
Returned(p, bs) ==
    [w \in Workers |-> IF p = "done" THEN <<bs[w] # 0>> ELSE ret[w]]

\* Lines 199-204 and 459-462: the rank's tiles are done; its failure count
\* decides its burn_success.
PassEnd(w) ==
    /\ pc[w] = "pass"
    /\ \A t \in OwnedTiles(w) : tpc[t] = "done"
    /\ burn_success' = [burn_success EXCEPT
                           ![w] = IF burn_failed[w] # 0 THEN 0 ELSE @]
    /\ pc' = [pc EXCEPT ![w] = "reduce_success"]
    /\ UNCHANGED <<cfg, U, U_old, reactions, tpc, lim, burn_failed, ret,
                   e_added, gate, prov, acc>>

\* Lines 206 and 464: ParallelDescriptor::ReduceIntMin(burn_success).
ReduceIntMin ==
    /\ \A w \in Workers : pc[w] = "reduce_success"
    /\ LET bs == [w \in Workers |->
                    SetMin({burn_success[v] : v \in Workers})]
       IN  /\ burn_success' = bs
           /\ ret' = Returned(AfterReduce, bs)
    /\ pc' = [w \in Workers |-> AfterReduce]
    /\ UNCHANGED <<cfg, U, U_old, reactions, tpc, lim, burn_failed, e_added,
                   gate, prov, acc>>

\* Lines 466-468: S_new.FillBoundary: each ghost cell that lies in another
\* box's valid region takes that box's value.
FillBoundary ==
    /\ \A w \in Workers : pc[w] = "fill"
    /\ U' = [f \in Fabs |-> [i \in DOMAIN U[f] |->
               IF i \notin ValidBox(f) /\ \E h \in Fabs : i \in ValidBox(h)
               THEN U[CHOOSE h \in Fabs : i \in ValidBox(h)][i]
               ELSE U[f][i]]]
    /\ ret' = Returned(AfterFill, burn_success)
    /\ pc' = [w \in Workers |-> AfterFill]
    /\ UNCHANGED <<cfg, U_old, reactions, tpc, lim, burn_failed, burn_success,
                   e_added, gate, prov, acc>>

\* MultiFab::sum(comp): over the valid cells of every box of every rank.
RECURSIVE SumCells(_, _)
SumCells(S, comp) ==
    IF S = {} THEN 0
    ELSE LET c == CHOOSE x \in S : TRUE
         IN  reactions[c[1]][c[2]][comp] + SumCells(S \ {c}, comp)

ValidCells == UNION {Cells(f, ValidBox(f)) : f \in Fabs}

\* Lines 208-216 and 470-477: the energy diagnostic.
Diagnostic ==
    /\ \A w \in Workers : pc[w] = "diag"
    /\ e_added' = [w \in Workers |-> <<SumCells(ValidCells, DiagComp)>>]
    /\ ret' = Returned("done", burn_success)
    /\ pc' = [w \in Workers |-> "done"]
    /\ UNCHANGED <<cfg, U, U_old, reactions, tpc, lim, burn_failed,
                   burn_success, gate, prov, acc>>

Next ==
    \/ \E w \in Workers : StrangEnter(w)
    \/ \E w \in Workers : GateLocal(w)
    \/ ReduceRealMin
    \/ ReduceRealMax
    \/ \E w \in Workers : GateTest(w)
    \/ \E w \in Workers : StrangGated(w)
    \/ \E t \in Tiles : StrangRate(t)
    \/ \E t \in Tiles : StrangApply(t)
    \/ \E w \in Workers : SDCEnter(w)
    \/ \E t \in Tiles : SDCBurn(t)
    \/ \E w \in Workers : PassEnd(w)
    \/ ReduceIntMin
    \/ FillBoundary
    \/ Diagnostic

Spec == Init /\ [][Next]_vars

\* ================================================================ claims
GlobalMin(comp) == SetMin({InitU(cfg)[c[1]][c[2]][comp] : c \in ValidCells})
GlobalMax(comp) == SetMax({InitU(cfg)[c[1]][c[2]][comp] : c \in ValidCells})

\* C1: the success flag a rank returns is false if and only if the integrator
\* reported failure on at least one cell burned in the call, on any tile of
\* any rank; a cell that was not burned is never counted.
C1_SuccessIffNoFailure ==
    \A w \in Workers :
        ret[w] # << >> => (ret[w] = <<FALSE>> <=> acc.failed # {})

\* C2: the gate returns true when all four bounds are at their defaults, and
\* otherwise returns true exactly when the global density and temperature
\* ranges over the valid cells overlap the configured window.
C2_GateIsOverlapTest ==
    \A w \in Workers :
        gate[w] # << >> =>
            gate[w][1] = (\/ ~limit
                       \/ /\ GlobalMax("rho") >= cfg.react_rho_min
                          /\ GlobalMin("rho") <= cfg.react_rho_max
                          /\ GlobalMax("temp") >= cfg.react_T_min
                          /\ GlobalMin("temp") <= cfg.react_T_max)

\* C3: after a tile's pass, every cell of the pass that lies inside the rate
\* array and was not burned has species, auxiliary and energy rates 0 and
\* cost metric 1.
C3_UnburnedRatesZeroCostOne ==
    \A t \in Tiles :
        tpc[t] = "done" =>
            \A i \in growntilebox(t, cfg.ngS) \cap Grow(TileFab(t), cfg.ngR) :
                <<TileFab(t), i>> \in acc.noburn =>
                    /\ \A n \in 0..EnergyComp : reactions[TileFab(t)][i][n] = 0
                    /\ reactions[TileFab(t)][i][WeightComp] = 1

\* A rank has returned from the Strang coupler on a skip path.
Skipped(w) ==
    /\ cfg.time_integration_method = "CTU"
    /\ pc[w] = "done"
    /\ (cfg.do_react # 1 \/ gate[w] = <<FALSE>>)

\* C4: a rank whose Strang call finds reactions disabled, or whose gate
\* returns false, invokes the integrator on none of its cells, leaves every
\* component of its state cells (interior and halo) unchanged, leaves every
\* entry of its rate boxes (all components, interior and halo) zero, and
\* returns true.
C4_SkipZeroesRatesOnly ==
    \A w \in Workers :
        Skipped(w) =>
            /\ ret[w] = <<TRUE>>
            /\ \A f \in OwnedFabs(w) :
                /\ U[f] = InitU(cfg)[f]
                /\ \A i \in Grow(f, cfg.ngS) : <<f, i>> \notin acc.burned
                /\ \A i \in Grow(f, cfg.ngR) : \A n \in 0..(NComp - 1) :
                       reactions[f][i][n] = 0

C4_Witness ==
    \E w \in Workers :
        /\ Skipped(w)
        /\ gate[w] = <<FALSE>>
        /\ OwnedFabs(w) # {}
        /\ limit_small_rho /\ limit_large_rho

\* C5: the energy diagnostic is the sum, over the valid cells, of the rate
\* component that holds the energy rate, NumSpec + NumAux.
C5_DiagnosticSumsEnergy ==
    \A w \in Workers :
        e_added[w] # << >> => e_added[w][1] = SumCells(ValidCells, EnergyComp)

\* C6: no sub-pass touches the rate array outside its extent; the Strang
\* apply sub-pass changes a state cell only inside the rate array; and the
\* cells of a tile's box outside the rate array are processed all the same.
C6_RateAccessInsideExtent ==
    /\ ~acc.rateOOB
    /\ cfg.time_integration_method = "CTU" =>
           \A f \in Fabs : \A i \in Grow(f, cfg.ngS) :
               U[f][i] # InitU(cfg)[f][i] => i \in Grow(f, cfg.ngR)
    /\ \A t \in Tiles :
           (tpc[t] = "done"
              /\ (cfg.time_integration_method = "SDC" \/ LevelSolves)) =>
               Cells(TileFab(t), growntilebox(t, cfg.ngS)) \subseteq acc.visited

C6_Witness ==
    /\ cfg.ngS > cfg.ngR
    /\ \E t \in Tiles :
        /\ tpc[t] = "done"
        /\ \E i \in growntilebox(t, cfg.ngS) \ Grow(TileFab(t), cfg.ngR) :
               <<TileFab(t), i>> \in acc.burned

\* The SDC per-cell pass is running or just over: the halo exchange that
\* follows it has not rewritten the ghost cells.
InSDCPass ==
    /\ cfg.time_integration_method = "SDC"
    /\ (cfg.ngS = 0 \/ \A w \in Workers : pc[w] \notin {"diag", "done"})

\* C7: in the SDC pass a cell that is not burned keeps every component of
\* new_state; a burned cell has its total energy, internal energy, species and
\* auxiliaries set to the integrator's output and keeps density, momenta and
\* temperature; old_state is never modified.
C7_SDCFrame ==
    /\ U_old = InitUold(cfg)
    /\ InSDCPass =>
           \A f \in Fabs : \A i \in Grow(f, cfg.ngS) :
               LET c0 == InitU(cfg)[f][i]
                   c == U[f][i]
                   y == SDCBurner(U_old[f][i], Integ(i))
               IN  IF <<f, i>> \in acc.burned
                   THEN /\ c.rho = c0.rho /\ c.temp = c0.temp
                        /\ c.mx = c0.mx /\ c.my = c0.my /\ c.mz = c0.mz
                        /\ c.shk = c0.shk
                        /\ c.eden = y.eden /\ c.eint = y.eint
                        /\ c.fs = y.fs /\ c.fx = y.fx
                   ELSE c = c0

C7_Witness ==
    /\ InSDCPass
    /\ acc.burned # {} /\ acc.noburn # {}
    /\ cfg.NumAux > 0
    /\ \A t \in Tiles : tpc[t] = "done"

\* C8: when a rank returns, no cell of its rate boxes (interior or halo)
\* holds a value from before the call: each was reset or written by the call.
C8_NoStaleRates ==
    \A w \in Workers :
        pc[w] = "done" =>
            \A f \in OwnedFabs(w) : \A i \in Grow(f, cfg.ngR) :
                prov[f][i] # "stale"

\* The apply sub-pass has only read rates that this call's rate sub-pass
\* wrote for the cell.
AppliedOwnRates ==
    \A r \in acc.applyRead : r[3] \in {"burn", "noburn"}

Compared(w) == gate[w] # << >> /\ limit

\* C10: every value read back from small_limiters and large_limiters is
\* read inside the vector and is the reduced extreme of the bound pushed there.
C10_LimitersReadBackInOrder ==
    /\ ~acc.vecOOB
    /\ \A w \in Workers :
        Compared(w) =>
            /\ limit_small_rho => lim[w].smalldens = GlobalMin("rho")
            /\ limit_small_T => lim[w].small_T = GlobalMin("temp")
            /\ limit_large_rho => lim[w].largedens = GlobalMax("rho")
            /\ limit_large_T => lim[w].large_T = GlobalMax("temp")

\* C11: in a Strang call the ranks agree on the gate, so they run the same
\* collectives: no rank has returned on the skip path while another waits in
\* the success reduction, and the ranks that return return the same flag.
C11_RanksAgree ==
    cfg.time_integration_method = "CTU" =>
        \A w \in Workers : \A v \in Workers :
            /\ (gate[w] # << >> /\ gate[v] # << >>) => gate[w] = gate[v]
            /\ ~(Skipped(w) /\ pc[v] = "reduce_success")
            /\ (ret[w] # << >> /\ ret[v] # << >>) => ret[w] = ret[v]

====
